---- MODULE Spec2Model ----
(***************************************************************************)
(* A model of src/eval.py: the Metric accumulator (update, print_result    *)
(* and the routines they call) and the evaluation loop of evaluate().      *)
(*                                                                         *)
(* Numbers.  precision[th] and recall[th] are sums of ratios                *)
(* (ab + epsilon) / (a_sum + epsilon).  They are kept exactly, as the bag  *)
(* of the ratios added, a ratio being the pair of its two counts.  Their   *)
(* value is a natural number of arbitrary size counting units of 1/Den,    *)
(* where Den is the product of the denominators that can occur, and the    *)
(* F-measure is an exact fraction of such numbers.  mae and q, the         *)
(* float32 scalars, are kept as fixed-point numbers counting units of      *)
(* 1/FScale, every operation rounding down to that grid, with NaN as a     *)
(* value of its own.  The rounding of the floating-point additions is not  *)
(* modelled.                                                               *)
(***************************************************************************)
EXTENDS Integers, Sequences, FiniteSets, Bags, TLC

VARIABLES mae, q, precision, recall, cnt,    \* the fields of Metric
          printed, raised,                   \* what the last call printed and raised
          fed,                               \* the samples update has accumulated
          has_label, pc, batch, labelled     \* evaluate(): its flag, its position, the batches and
                                             \* the labelled batches it has finished

vars == <<mae, q, precision, recall, cnt, printed, raised, fed, has_label, pc, batch, labelled>>

metric == <<mae, q, precision, recall, cnt>>

----------------------------------------------------------------------------
(* Bounds of the model *)

MaxUpdates == 2
MaxBatches == 3

(* Constants of the program *)

thresholds == 256
EpsInv == 10000
BetaNum == 3
BetaDen == 10
PixelMax == 255

----------------------------------------------------------------------------
(* Natural numbers of arbitrary size: the digits in base Base, the least   *)
(* significant first, without leading zeros (zero is the empty sequence).  *)

Base == 10 * 1000

RECURSIVE BigOf(_)
BigOf(n) == IF n = 0 THEN <<>> ELSE <<n % Base>> \o BigOf(n \div Base)

(* the digits of the number whose k-th coefficient is v[k], four *)
(* coefficients at a step                                         *)
RECURSIVE CarryFrom(_, _, _)
CarryFrom(v, k, c) ==
    IF k > Len(v) THEN BigOf(c)
    ELSE IF k + 3 > Len(v)
    THEN <<(v[k] + c) % Base>> \o CarryFrom(v, k + 1, (v[k] + c) \div Base)
    ELSE LET s1 == v[k] + c
             s2 == v[k + 1] + (s1 \div Base)
             s3 == v[k + 2] + (s2 \div Base)
             s4 == v[k + 3] + (s3 \div Base)
         IN  <<s1 % Base, s2 % Base, s3 % Base, s4 % Base>>
                 \o CarryFrom(v, k + 4, s4 \div Base)

DigitAt(a, k) == IF k >= 1 /\ k <= Len(a) THEN a[k] ELSE 0

BigAdd(a, b) ==
    LET n == IF Len(a) > Len(b) THEN Len(a) ELSE Len(b)
    IN  CarryFrom([k \in 1..n |-> DigitAt(a, k) + DigitAt(b, k)] \o <<>>, 1, 0)

RECURSIVE SumTo(_, _)
SumTo(f, n) ==
    IF n = 0 THEN 0
    ELSE IF n < 4 THEN f[n] + SumTo(f, n - 1)
    ELSE f[n] + f[n - 1] + f[n - 2] + f[n - 3] + SumTo(f, n - 4)

BigMul(a, b) ==
    IF a = <<>> \/ b = <<>>
    THEN <<>>
    ELSE CarryFrom([k \in 1..(Len(a) + Len(b) - 1) |->
                       SumTo([j \in 1..Len(b) |-> DigitAt(a, k - j + 1) * b[j]], Len(b))]
                   \o <<>>, 1, 0)

RECURSIVE BigLessFrom(_, _, _)
BigLessFrom(a, b, i) ==
    IF i = 0 THEN FALSE
    ELSE IF a[i] # b[i] THEN a[i] < b[i]
    ELSE BigLessFrom(a, b, i - 1)

BigLess(a, b) ==
    IF Len(a) # Len(b) THEN Len(a) < Len(b) ELSE BigLessFrom(a, b, Len(a))

BigLeq(a, b) == ~BigLess(b, a)

(* Fractions n/d of such numbers, d > 0, and the value 0/0 (nan). *)

Rat(n, d) == [nan |-> FALSE, n |-> n, d |-> d]
RatNaN == [nan |-> TRUE, n |-> <<>>, d |-> <<>>]

RatMul(a, b) ==
    IF a.nan \/ b.nan THEN RatNaN ELSE Rat(BigMul(a.n, b.n), BigMul(a.d, b.d))

RatAdd(a, b) ==
    IF a.nan \/ b.nan THEN RatNaN
    ELSE IF a.d = b.d THEN Rat(BigAdd(a.n, b.n), a.d)
    ELSE Rat(BigAdd(BigMul(a.n, b.d), BigMul(b.n, a.d)), BigMul(a.d, b.d))

RatDiv(a, b) ==
    IF a.nan \/ b.nan THEN RatNaN
    ELSE IF b.n = <<>> /\ a.n = <<>> THEN RatNaN
    ELSE IF a.d = b.d THEN Rat(a.n, b.n)
    ELSE Rat(BigMul(a.n, b.d), BigMul(a.d, b.n))

(* a / n, n an integer: 0/0 is nan *)
RatDivInt(a, n) ==
    IF a.nan \/ (n = 0 /\ a.n = <<>>) THEN RatNaN ELSE Rat(a.n, BigMul(a.d, BigOf(n)))

RatEq(a, b) ==
    /\ ~a.nan
    /\ ~b.nan
    /\ BigMul(a.n, b.d) = BigMul(b.n, a.d)

RatLess(a, b) ==
    /\ ~a.nan
    /\ ~b.nan
    /\ BigLess(BigMul(a.n, b.d), BigMul(b.n, a.d))

----------------------------------------------------------------------------
(* float32 scalars: fixed-point numbers and NaN. *)

FScale == PixelMax * 36

Fl(v) == [nan |-> FALSE, v |-> v]
NaN == [nan |-> TRUE, v |-> 0]
FZero == Fl(0)
FOne == Fl(FScale)

FAdd(a, b) == IF a.nan \/ b.nan THEN NaN ELSE Fl(a.v + b.v)
FSub(a, b) == IF a.nan \/ b.nan THEN NaN ELSE Fl(a.v - b.v)
FMul(a, b) == IF a.nan \/ b.nan THEN NaN ELSE Fl((a.v * b.v) \div FScale)
FDiv(a, b) ==
    IF a.nan \/ b.nan THEN NaN
    ELSE IF b.v = 0 /\ a.v = 0 THEN NaN
    ELSE Fl((a.v * FScale) \div b.v)
FDivInt(a, n) == IF a.nan \/ (n = 0 /\ a.v = 0) THEN NaN ELSE Fl(a.v \div n)

RECURSIVE SumSeq(_)
SumSeq(s) == IF s = <<>> THEN 0 ELSE Head(s) + SumSeq(Tail(s))

(* A variant of the mean that is 0 over an empty array. *)
FMeanZeroOfNone(s) == IF s = <<>> THEN FZero ELSE Fl(SumSeq(s) \div Len(s))

(* numpy's mean: NaN over an empty array *)
FMean(s) == IF s = <<>> THEN NaN ELSE Fl(SumSeq(s) \div Len(s))

(* the integer square root of n < 32^6, digit by digit in base 32 *)
ISqrt(n) ==
    LET d1 == 1024 * Cardinality({x \in 1..31 : (1024 * x) * (1024 * x) <= n})
        d2 == d1 + 32 * Cardinality({x \in 1..31 : (d1 + 32 * x) * (d1 + 32 * x) <= n})
    IN  d2 + Cardinality({x \in 1..31 : (d2 + x) * (d2 + x) <= n})

FSqrt(a) == IF a.nan THEN NaN ELSE Fl(ISqrt(a.v * FScale))

----------------------------------------------------------------------------
(* Images: a 2-D array is the tuple of its rows, a pixel an integer of     *)
(* 0..PixelMax.  A sample is a prediction and a ground truth.              *)

Img11(a) == << <<a>> >>
Img12(a, b) == << <<a, b>> >>
Img21(a, b) == << <<a>>, <<b>> >>
Img22(a, b, c, d) == << <<a, b>>, <<c, d>> >>
Img23(a, b, c, d, e, f) == << <<a, b, c>>, <<d, e, f>> >>

Sample(p, g) == [pred |-> p, gt |-> g]

(* The samples the model feeds: pairs of equal shape ... *)
Samples ==
    << Sample(Img11(255), Img11(255)),
       Sample(Img11(128), Img11(0)),
       Sample(Img22(255, 255, 255, 255), Img22(0, 0, 0, 0)),
       Sample(Img22(0, 0, 128, 255), Img22(0, 0, 0, 255)),
       Sample(Img22(100, 0, 255, 0), Img22(100, 100, 100, 100)),
       Sample(Img23(255, 0, 255, 0, 0, 255), Img23(0, 255, 0, 255, 255, 0)),
       Sample(Img22(0, 0, 255, 0), Img22(0, 0, 255, 0)),
       Sample(Img22(0, 200, 0, 0), Img22(0, 255, 0, 0)),
       Sample(Img11(200), Img11(100)) >>

(* ... and pairs whose shapes differ. *)
BadSamples ==
    << Sample(Img12(255, 0), Img21(255, 0)),
       Sample(Img22(255, 0, 0, 255), Img12(255, 0)) >>

AllSamples == Samples \o BadSamples

Rows(img) == Len(img)
Cols(img) == IF img = <<>> THEN 0 ELSE Len(img[1])
shape(img) == <<Rows(img), Cols(img)>>

RECURSIVE Flatten(_)
Flatten(img) == IF img = <<>> THEN <<>> ELSE Head(img) \o Flatten(Tail(img))

Max(S) == CHOOSE x \in S : \A y \in S : y <= x
Min(S) == CHOOSE x \in S : \A y \in S : x <= y

MaxPixels ==
    Max({Rows(AllSamples[i].pred) * Cols(AllSamples[i].pred) : i \in DOMAIN AllSamples})

(* pred / 255.0, gt / 255.0 (lines 84-85) *)
Norm(img) == [r \in DOMAIN img |-> [c \in DOMAIN img[r] |-> (img[r][c] * FScale) \div PixelMax]]

Abs(x) == IF x < 0 THEN -x ELSE x

----------------------------------------------------------------------------
(* compute_mae (lines 117-121): mae plus the mean absolute difference *)

MaeOf(norm_pred, norm_gt) ==
    LET p == Flatten(norm_pred)
        g == Flatten(norm_gt)
    IN  FMean([i \in DOMAIN p |-> Abs(p[i] - g[i])])

(* A variant of compute_mae that assigns where line 121 adds. *)
compute_mae_assigning(oldmae, norm_pred, norm_gt) == MaeOf(norm_pred, norm_gt)

compute_mae(oldmae, norm_pred, norm_gt) == FAdd(oldmae, MaeOf(norm_pred, norm_gt))

----------------------------------------------------------------------------
(* compute_precision_and_recall (lines 100-115) *)

RECURSIVE DenProd(_, _)
DenProd(k, skip) ==
    IF k = 0 THEN <<1>>
    ELSE IF k = skip THEN DenProd(k - 1, skip)
    ELSE BigMul(BigOf(EpsInv * k + 1), DenProd(k - 1, skip))

(* The unit of the value of precision and recall is 1/Den. *)
Den == DenProd(MaxPixels, 0)

(* Den / (n + epsilon) * epsilon, for a count n of pixels *)
DenOver == [n \in 0..MaxPixels |-> DenProd(MaxPixels, n)]

(* np.zeros (lines 75-76): the sum of no ratio *)
NoRatio == EmptyBag

(* += (lines 114-115) on sums of ratios *)
RatioAdd(a, b) == a (+) b

(* (x + epsilon) / (y + epsilon), 0 <= x <= y (lines 114-115), as the pair *)
(* of the counts x and y; with equal counts the ratio is 1 whatever the    *)
(* count is                                                                 *)
EpsRatio(x, y) == SetToBag({IF x = y THEN <<0, 0>> ELSE <<x, y>>})

(* the sum of the numerators (x + epsilon) / epsilon of the ratios of a    *)
(* over (y + epsilon) / epsilon, for the counts x, ..., y                  *)
RECURSIVE NumeratorOver(_, _, _)
NumeratorOver(a, y, x) ==
    IF x > y THEN 0
    ELSE CopiesIn(<<x, y>>, a) * (EpsInv * x + 1) + NumeratorOver(a, y, x + 1)

TermOf(num, y) == IF num = 0 THEN <<>> ELSE BigMul(BigOf(num), DenOver[y])

(* the value of a sum of ratios, in units of 1/Den *)
RECURSIVE ValueFrom(_, _)
ValueFrom(a, y) ==
    IF y > MaxPixels THEN <<>>
    ELSE BigAdd(TermOf(NumeratorOver(a, y, 0), y), ValueFrom(a, y + 1))

ValueOf(a) == ValueFrom(a, 0)

(* a[pred > th] = 1 (lines 107-108): the set of the pixels set to 1 *)
PredMask(pred, th) ==
    LET p == Flatten(pred) IN {k \in DOMAIN p : p[k] > th}

(* b[gt > th / self.thresholds] = 1 (lines 109-110): gt is the array     *)
(* update passes, which is the un-normalized one (line 87).               *)
GtMask(gt, th) ==
    LET g == Flatten(gt) IN {k \in DOMAIN g : g[k] * thresholds > th}

(* what lines 111-115 add to precision[th] and to recall[th] *)
PrecisionOf(pred, gt, th) ==
    LET a == PredMask(pred, th)
        b == GtMask(gt, th)
    IN  EpsRatio(Cardinality(a \cap b), Cardinality(a))

(* A variant of line 115 that divides by a_sum. *)
RecallOverPredicted(pred, gt, th) ==
    LET a == PredMask(pred, th)
        b == GtMask(gt, th)
    IN  EpsRatio(Cardinality(a \cap b), Cardinality(a))

RecallOf(pred, gt, th) ==
    LET a == PredMask(pred, th)
        b == GtMask(gt, th)
    IN  EpsRatio(Cardinality(a \cap b), Cardinality(b))

Thresholds == 0..(thresholds - 1)

(* PrecisionOf and RecallOf of the samples of the model, evaluated once *)
PRTable ==
    [k \in DOMAIN Samples |->
        [th \in Thresholds |-> <<PrecisionOf(Samples[k].pred, Samples[k].gt, th),
                                 RecallOf(Samples[k].pred, Samples[k].gt, th)>>]]

PROf(pred, gt) == PRTable[CHOOSE k \in DOMAIN Samples : Samples[k] = Sample(pred, gt)]

(* the loop of line 104 with line 114, or with line 115 *)
AddAtEach(old, t, i) ==
    [th \in Thresholds |-> RatioAdd(old[th], t[th][i])]

compute_precision(oldp, pred, gt) == AddAtEach(oldp, PROf(pred, gt), 1)

compute_recall(oldr, pred, gt) == AddAtEach(oldr, PROf(pred, gt), 2)

----------------------------------------------------------------------------
(* The S-measure (lines 123-266), on the normalized arrays *)

(* round(): Python's and numpy's, half to even; num >= 0, den > 0 *)
RoundHalfEven(num, den) ==
    LET fl == num \div den
        r2 == 2 * (num % den)
    IN  IF r2 < den THEN fl
        ELSE IF r2 > den THEN fl + 1
        ELSE IF fl % 2 = 0 THEN fl ELSE fl + 1

(* gt[gt >= 0.5] = 1; gt[gt < 0.5] = 0 (lines 137-138) *)
Binarize(gt) ==
    [r \in DOMAIN gt |-> [c \in DOMAIN gt[r] |-> IF 2 * gt[r][c] >= FScale THEN FScale ELSE 0]]

(* 1 - a, elementwise *)
OneMinus(a) == [r \in DOMAIN a |-> [c \in DOMAIN a[r] |-> FScale - a[r][c]]]

(* pred[gt == 1] *)
RECURSIVE SelectOnes(_, _)
SelectOnes(p, g) ==
    IF p = <<>> THEN <<>>
    ELSE (IF Head(g) = FScale THEN <<Head(p)>> ELSE <<>>) \o SelectOnes(Tail(p), Tail(g))

(* _object (lines 156-167) *)
_object(pred, gt) ==
    LET temp == SelectOnes(Flatten(pred), Flatten(gt))
        x == FMean(temp)
        sigma_x == FSqrt(FMean([i \in DOMAIN temp |-> ((temp[i] - x.v) * (temp[i] - x.v)) \div FScale]))
    IN  IF temp = <<>> THEN FZero
        ELSE FDiv(FMul(Fl(2 * FScale), x), FAdd(FAdd(FMul(x, x), FOne), sigma_x))

(* _s_object (lines 144-154) *)
_s_object(pred, gt) ==
    LET fg == [r \in DOMAIN pred |-> [c \in DOMAIN pred[r] |->
                  IF gt[r][c] = 0 THEN 0 ELSE pred[r][c]]]
        bg == [r \in DOMAIN pred |-> [c \in DOMAIN pred[r] |->
                  IF gt[r][c] = FScale THEN 0 ELSE FScale - pred[r][c]]]
        o_fg == _object(fg, gt)
        o_bg == _object(bg, OneMinus(gt))
        u == FMean(Flatten(gt))
    IN  FAdd(FMul(u, o_fg), FMul(FSub(FOne, u), o_bg))

(* _centroid (lines 249-266): <<x, y>> *)
_centroid(gt) ==
    LET rows == Rows(gt)
        cols == Cols(gt)
        total == SumSeq(Flatten(gt))
        colsum(c) == SumSeq([r \in 1..rows |-> gt[r][c]])
        rowsum(r) == SumSeq(gt[r])
    IN  IF total = 0
        THEN <<RoundHalfEven(cols, 2), RoundHalfEven(rows, 2)>>
        ELSE <<RoundHalfEven(SumSeq([c \in 1..cols |-> colsum(c) * (c - 1)]), total),
               RoundHalfEven(SumSeq([r \in 1..rows |-> rowsum(r) * (r - 1)]), total)>>

(* a[r0:r1, c0:c1], flattened *)
Slice(a, r0, r1, c0, c1) ==
    Flatten([r \in 1..(r1 - r0) |-> [c \in 1..(c1 - c0) |-> a[r0 + r][c0 + c]]])

(* the four quadrants lt, rt, lb, rb of _divide_gt and _divide_prediction *)
(* (lines 195-198 and 218-221)                                            *)
divide(a, x, y) ==
    LET h == Rows(a)
        w == Cols(a)
    IN  <<Slice(a, 0, y, 0, x), Slice(a, 0, y, x, w),
          Slice(a, y, h, 0, x), Slice(a, y, h, x, w)>>

(* the weights w1..w4 of _divide_gt (lines 199-204) *)
weights(gt, x, y) ==
    LET h == Rows(gt)
        w == Cols(gt)
        area == h * w
        w1 == Fl((x * y * FScale) \div area)
        w2 == Fl(((w - x) * y * FScale) \div area)
        w3 == Fl((x * (h - y) * FScale) \div area)
    IN  <<w1, w2, w3, FSub(FSub(FSub(FOne, w1), w2), w3)>>

(* sum / (n - 1 + 1e-20) (lines 234-236).  Over a single element the sum  *)
(* of the deviations from the mean is 0, and so is the quotient.          *)
DivNm1(sum, n) ==
    IF n = 0 THEN Fl(-sum)
    ELSE IF n = 1 THEN Fl(sum * 0)
    ELSE Fl(sum \div (n - 1))

(* _ssim (lines 224-247), on two flattened quadrants *)
_ssim(pred, gt) ==
    LET n == Len(pred)
        x == FMean(pred)
        y == FMean(gt)
        sigma_x2 == DivNm1(SumSeq([i \in DOMAIN pred |->
                        ((pred[i] - x.v) * (pred[i] - x.v)) \div FScale]), n)
        sigma_y2 == DivNm1(SumSeq([i \in DOMAIN gt |->
                        ((gt[i] - y.v) * (gt[i] - y.v)) \div FScale]), n)
        sigma_xy == DivNm1(SumSeq([i \in DOMAIN pred |->
                        ((pred[i] - x.v) * (gt[i] - y.v)) \div FScale]), n)
        alpha == FMul(FMul(FMul(Fl(4 * FScale), x), y), sigma_xy)
        beta == FMul(FAdd(FMul(x, x), FMul(y, y)), FAdd(sigma_x2, sigma_y2))
    IN  IF alpha.nan \/ alpha.v # 0 THEN FDiv(alpha, beta)
        ELSE IF beta.v = 0 THEN FOne
        ELSE FZero

(* _s_region (lines 169-181) *)
_s_region(pred, gt) ==
    LET xy == _centroid(gt)
        g == divide(gt, xy[1], xy[2])
        w == weights(gt, xy[1], xy[2])
        p == divide(pred, xy[1], xy[2])
    IN  FAdd(FAdd(FAdd(FMul(w[1], _ssim(p[1], g[1])), FMul(w[2], _ssim(p[2], g[2]))),
                  FMul(w[3], _ssim(p[3], g[3]))),
             FMul(w[4], _ssim(p[4], g[4])))

(* A variant of lines 140-141 that lets every score through. *)
ClampNothing(s) == s

(* if q < 0 or np.isnan(q): q = 0 (lines 140-141) *)
Clamp(s) == IF s.nan \/ s.v < 0 THEN FZero ELSE s

(* the general branch before the clamp (line 139) *)
GeneralScore(pred, gt) ==
    LET b == Binarize(gt)
        half == Fl(FScale \div 2)
    IN  FAdd(FMul(half, _s_object(pred, b)), FMul(FSub(FOne, half), _s_region(pred, b)))

(* the score of one image (lines 128-141) *)
SMeasureOf(pred, gt) ==
    LET y == FMean(Flatten(gt))
    IN  IF y = FZero THEN FSub(FOne, FMean(Flatten(pred)))
        ELSE IF y = FOne THEN FMean(Flatten(pred))
        ELSE Clamp(GeneralScore(pred, gt))

(* A variant of line 142 that keeps the larger of self.q and q. *)
compute_s_measure_largest(oldq, norm_pred, norm_gt) ==
    LET s == SMeasureOf(norm_pred, norm_gt)
    IN  IF s.v > oldq.v THEN s ELSE oldq

(* compute_s_measure (lines 123-142) *)
compute_s_measure(oldq, norm_pred, norm_gt) == FAdd(oldq, SMeasureOf(norm_pred, norm_gt))

----------------------------------------------------------------------------
(* Metric *)

(* __init__ (lines 69-78) *)
Fresh ==
    [mae |-> FZero, q |-> FZero,
     precision |-> [th \in Thresholds |-> NoRatio],
     recall |-> [th \in Thresholds |-> NoRatio],
     cnt |-> 0]

(* lines 82-89 of update: the four sums take the image, cnt counts it *)
accumulate(m, pred, gt) ==
    LET norm_pred == Norm(pred)
        norm_gt == Norm(gt)
    IN  [mae |-> compute_mae(m.mae, norm_pred, norm_gt),
         precision |-> compute_precision(m.precision, pred, gt),
         recall |-> compute_recall(m.recall, pred, gt),
         q |-> compute_s_measure(m.q, norm_pred, norm_gt),
         cnt |-> m.cnt + 1]

(* A variant of update that counts the call before it compares the shapes. *)
update_counting_first(m, pred, gt) ==
    IF shape(pred) # shape(gt)
    THEN [m |-> [m EXCEPT !.cnt = @ + 1], raised |-> "AssertionError"]
    ELSE [m |-> accumulate(m, pred, gt), raised |-> "none"]

(* update (lines 80-89): the Metric after the call and what the call raised *)
update(m, pred, gt) ==
    IF shape(pred) # shape(gt)
    THEN [m |-> m, raised |-> "AssertionError"]
    ELSE [m |-> accumulate(m, pred, gt), raised |-> "none"]

(* f_measure at one threshold (line 92), from the two sums there *)
Beta == Rat(BigOf(BetaNum), BigOf(BetaDen))

(* A variant of line 92 with epsilon added to the denominator. *)
FMeasureGuarded(P, R) ==
    RatDiv(RatMul(RatAdd(Rat(<<1>>, <<1>>), Beta), RatMul(P, R)),
           RatAdd(RatAdd(RatMul(Beta, P), R), Rat(<<1>>, BigOf(EpsInv))))

FMeasure(P, R) ==
    RatDiv(RatMul(RatAdd(Rat(<<1>>, <<1>>), Beta), RatMul(P, R)),
           RatAdd(RatMul(Beta, P), R))

PairAt(m, th) == <<m.precision[th], m.recall[th]>>

f_measure(pr) == FMeasure(Rat(ValueOf(pr[1]), Den), Rat(ValueOf(pr[2]), Den))

RECURSIVE BestOf(_)
BestOf(S) ==
    LET x == CHOOSE v \in S : TRUE
    IN  IF S = {x} THEN x
        ELSE LET b == BestOf(S \ {x})
             IN  IF b # x /\ RatLess(x.f, b.f) THEN b ELSE x

(* np.argmax(f_measure) (line 93): the first index of a NaN if there is   *)
(* one, else the first index of the maximum.  f_measure is evaluated once *)
(* for each pair of sums that occurs.                                     *)
FValues(m) ==
    {[pr |-> pr, f |-> f_measure(pr)] : pr \in {PairAt(m, th) : th \in Thresholds}}

NaNsOf(vals) == {v \in vals : v.f.nan}

MaximaOf(vals, best) == {u \in vals : ~RatLess(u.f, best.f)}

TopOf(vals, nans) ==
    {v.pr : v \in IF nans # {} THEN nans ELSE MaximaOf(vals, BestOf(vals))}

FirstAt(m, top) == Min({th \in Thresholds : PairAt(m, th) \in top})

ArgmaxOf(m, vals) == FirstAt(m, TopOf(vals, NaNsOf(vals)))

argmax(m) == ArgmaxOf(m, FValues(m))

(* print_result (lines 91-98): the values printed, in order, and what the *)
(* call raised.  A numpy scalar divided by cnt = 0 is NaN (lines 94-96);  *)
(* self.mae is the int of line 73 until the first update, so that         *)
(* self.mae / self.cnt with cnt = 0 divides two Python ints (line 97).    *)
Lines94To96(m, am) ==
    <<RatDivInt(f_measure(PairAt(m, am)), m.cnt),
      RatDivInt(Rat(ValueOf(m.precision[am]), Den), m.cnt),
      RatDivInt(Rat(ValueOf(m.recall[am]), Den), m.cnt)>>

Lines97To98(m, first3) ==
    IF m.cnt = 0
    THEN [printed |-> first3, raised |-> "ZeroDivisionError"]
    ELSE [printed |-> first3 \o <<FDivInt(m.mae, m.cnt), FDivInt(m.q, m.cnt)>>,
          raised |-> "none"]

print_result(m) == Lines97To98(m, Lines94To96(m, argmax(m)))

----------------------------------------------------------------------------
(* The state machine *)

M == [mae |-> mae, q |-> q, precision |-> precision, recall |-> recall, cnt |-> cnt]

SetMetric(m) ==
    /\ mae' = m.mae
    /\ q' = m.q
    /\ precision' = m.precision
    /\ recall' = m.recall
    /\ cnt' = m.cnt

InitMetric ==
    /\ mae = Fresh.mae
    /\ q = Fresh.q
    /\ precision = Fresh.precision
    /\ recall = Fresh.recall
    /\ cnt = Fresh.cnt
    /\ printed = <<>>
    /\ raised = "none"
    /\ fed = <<>>
    /\ has_label = FALSE
    /\ batch = 0
    /\ labelled = 0

(* A caller of Metric that calls update and print_result in any order. *)
Init ==
    /\ InitMetric
    /\ pc = "api"

Update(k) ==
    /\ pc = "api"
    /\ cnt < MaxUpdates
    /\ \E r \in {update(M, AllSamples[k].pred, AllSamples[k].gt)} :
           /\ SetMetric(r.m)
           /\ raised' = r.raised
           /\ fed' = IF r.raised = "none" THEN Append(fed, k) ELSE fed
    /\ printed' = <<>>
    /\ UNCHANGED <<has_label, pc, batch, labelled>>

PrintResult ==
    /\ pc = "api"
    /\ \E r \in {print_result(M)} :
           /\ printed' = r.printed
           /\ raised' = r.raised
    /\ UNCHANGED <<mae, q, precision, recall, cnt, fed, has_label, pc, batch, labelled>>

Next ==
    \/ \E k \in DOMAIN AllSamples : Update(k)
    \/ PrintResult

Spec == Init /\ [][Next]_vars

----------------------------------------------------------------------------
(* evaluate (lines 269-309), from metric = Metric() and has_label = False  *)
(* (lines 284-285) on.  The network, the files and the timing are left     *)
(* out: a batch is a prediction with a label, or with none.                *)

(* the samples the dataset can hold: four whose label has the shape of the *)
(* prediction and one whose label has another shape                        *)
EvalSamples == {1, 3, 4, 7, 10}

(* A variant of lines 299-300 that sets has_label on every batch. *)
has_label_on_every_batch(h, present) == TRUE

(* if sal_label is not None: has_label = True (lines 299-300) *)
has_label_after(h, present) == IF present THEN TRUE ELSE h

InitEvaluate ==
    /\ InitMetric
    /\ pc = "loop"

(* one turn of the loop on a batch with a label (lines 286-305): the       *)
(* AssertionError of update ends evaluate                                   *)
LabelledBatch(k) ==
    /\ pc = "loop"
    /\ batch < MaxBatches
    /\ has_label' = has_label_after(has_label, TRUE)
    /\ \E r \in {update(M, AllSamples[k].pred, AllSamples[k].gt)} :
           /\ SetMetric(r.m)
           /\ raised' = r.raised
           /\ IF r.raised = "none"
              THEN /\ fed' = Append(fed, k)
                   /\ batch' = batch + 1
                   /\ labelled' = labelled + 1
                   /\ pc' = "loop"
              ELSE /\ pc' = "aborted"
                   /\ UNCHANGED <<fed, batch, labelled>>
    /\ UNCHANGED printed

(* one turn of the loop on a batch without a label: line 299 skips the     *)
(* update                                                                   *)
UnlabelledBatch ==
    /\ pc = "loop"
    /\ batch < MaxBatches
    /\ has_label' = has_label_after(has_label, FALSE)
    /\ batch' = batch + 1
    /\ UNCHANGED <<mae, q, precision, recall, cnt, printed, raised, fed, pc, labelled>>

(* the dataset is exhausted (lines 307-309) *)
EndOfData ==
    /\ pc = "loop"
    /\ IF has_label
       THEN \E r \in {print_result(M)} :
                /\ printed' = r.printed
                /\ raised' = r.raised
                /\ pc' = IF r.raised = "none" THEN "done" ELSE "aborted"
       ELSE /\ pc' = "done"
            /\ UNCHANGED <<printed, raised>>
    /\ UNCHANGED <<mae, q, precision, recall, cnt, fed, has_label, batch, labelled>>

NextEvaluate ==
    \/ \E k \in EvalSamples : LabelledBatch(k)
    \/ UnlabelledBatch
    \/ EndOfData

SpecEvaluate == InitEvaluate /\ [][NextEvaluate]_vars

----------------------------------------------------------------------------
(* What one image contributes to each sum, computed apart from update, and *)
(* the sums of the contributions of a sequence of samples.                 *)

Contribution ==
    [k \in DOMAIN Samples |->
        [mae |-> MaeOf(Norm(Samples[k].pred), Norm(Samples[k].gt)),
         q |-> SMeasureOf(Norm(Samples[k].pred), Norm(Samples[k].gt)),
         pr |-> PRTable[k]]]

RECURSIVE FSum(_, _)
FSum(s, field) ==
    IF s = <<>> THEN FZero
    ELSE FAdd(FSum(SubSeq(s, 1, Len(s) - 1), field), Contribution[s[Len(s)]][field])

RECURSIVE RatioSum(_, _, _)
RatioSum(s, th, i) ==
    IF s = <<>> THEN NoRatio
    ELSE RatioAdd(RatioSum(SubSeq(s, 1, Len(s) - 1), th, i), Contribution[s[Len(s)]].pr[th][i])

Mismatched ==
    {k \in DOMAIN AllSamples : shape(AllSamples[k].pred) # shape(AllSamples[k].gt)}

----------------------------------------------------------------------------
(* The claims *)

(* C1: update called with pred.shape # gt.shape raises AssertionError      *)
(* before any numeric work: whatever the accumulator holds, the call       *)
(* leaves mae, q, every precision[th], every recall[th] and cnt as they    *)
(* were.                                                                   *)
ShapeMismatchChangesNothing ==
    /\ \A k \in Mismatched :
          update(M, AllSamples[k].pred, AllSamples[k].gt) = [m |-> M, raised |-> "AssertionError"]
    /\ raised = "AssertionError" =>
          /\ cnt = Len(fed)
          /\ mae = FSum(fed, "mae")
          /\ q = FSum(fed, "q")

(* a mismatched call has been made on an accumulator that holds an image *)
MismatchAfterUpdate ==
    /\ raised = "AssertionError"
    /\ cnt = 1
    /\ mae # FZero

(* C2: every update that passes the shape check adds exactly one image's   *)
(* contribution to mae, to q, to each precision[th] and to each recall[th] *)
(* and adds 1 to cnt: in every reachable state cnt is the number of        *)
(* contributions each of the four sums holds.                              *)
EveryContributionCounted ==
    /\ cnt = Len(fed)
    /\ mae = FSum(fed, "mae")
    /\ q = FSum(fed, "q")
    /\ \A th \in Thresholds :
          /\ precision[th] = RatioSum(fed, th, 1)
          /\ recall[th] = RatioSum(fed, th, 2)

(* two updates, each with a contribution to mae that is not zero *)
TwoImagesCounted ==
    /\ cnt = 2
    /\ raised = "none"
    /\ \A i \in DOMAIN fed : Contribution[fed[i]].mae # FZero

(* C4, as the claim states it: print_result on an accumulator with cnt = 0 *)
(* fails without reporting any value, NaN included.                        *)
EmptyAccumulatorReportsNothing ==
    (cnt = 0 /\ raised = "ZeroDivisionError") => printed = <<>>

(* C3: in evaluate a batch without ground truth never reaches update, and  *)
(* print_result is called only if some batch had a ground truth: it is     *)
(* never called on an accumulator with cnt = 0, and cnt is the number of   *)
(* labelled batches processed.                                             *)
OnlyLabelledBatchesCount ==
    /\ cnt = labelled
    /\ Len(fed) = labelled
    /\ labelled <= batch
    /\ has_label \/ cnt = 0
    /\ printed # <<>> => (has_label /\ cnt >= 1 /\ pc = "done")
    /\ raised # "ZeroDivisionError"

(* a run over batches with and without a label that ended with the report *)
MixedRunReported ==
    /\ pc = "done"
    /\ labelled >= 1
    /\ batch > labelled
    /\ Len(printed) = 5

(* the average sum / n of a sum of ratios, and line 92 on two averages *)
AverageOf(sum, n) == Rat(ValueOf(sum), BigMul(Den, BigOf(n)))

AveragedF(pr, n) ==
    LET P == AverageOf(pr[1], n)
        R == AverageOf(pr[2], n)
    IN  RatDiv(RatMul(Rat(BigOf(BetaDen + BetaNum), BigOf(BetaDen)), RatMul(P, R)),
               RatAdd(RatMul(Rat(BigOf(BetaNum), BigOf(BetaDen)), P), R))

(* C5: with cnt >= 1, print_result reports the F-measure, the precision    *)
(* and the recall of one threshold th, where the precision and the recall  *)
(* are precision[th] / cnt and recall[th] / cnt, the F-measure is          *)
(* (1 + 0.3) * P * R / (0.3 * P + R) of these two averages, and no         *)
(* threshold has a greater F-measure of its averages.                      *)
ReportIsMaxOfAverages ==
    (cnt >= 1 /\ Len(printed) = 5) =>
        LET fs == {[pr |-> pr, f |-> AveragedF(pr, cnt)] :
                      pr \in {PairAt(M, th) : th \in Thresholds}}
        IN  \E v \in fs :
               /\ RatEq(printed[1], v.f)
               /\ RatEq(printed[2], AverageOf(v.pr[1], cnt))
               /\ RatEq(printed[3], AverageOf(v.pr[2], cnt))
               /\ \A u \in fs : ~RatLess(v.f, u.f)

(* a report over two images whose best threshold is not the first one *)
ReportAtLaterThreshold ==
    /\ cnt = 2
    /\ Len(printed) = 5
    /\ RatLess(AveragedF(PairAt(M, 0), cnt), printed[1])

(* the field-wise sum of two Metrics *)
Merge(a, b) ==
    [mae |-> FAdd(a.mae, b.mae),
     q |-> FAdd(a.q, b.q),
     precision |-> [th \in Thresholds |-> RatioAdd(a.precision[th], b.precision[th])],
     recall |-> [th \in Thresholds |-> RatioAdd(a.recall[th], b.recall[th])],
     cnt |-> a.cnt + b.cnt]

(* a fresh Metric fed the samples s[i], ..., s[j] *)
RECURSIVE Run(_, _, _)
Run(s, i, j) ==
    IF j < i THEN Fresh
    ELSE update(Run(s, i, j - 1), Samples[s[j]].pred, Samples[s[j]].gt).m

Orders(n) == {p \in [1..n -> 1..n] : \A i, j \in 1..n : p[i] = p[j] => i = j}

MergedIs(a, b, m) ==
    /\ Merge(a, b) = m
    /\ Merge(b, a) = m
    /\ Merge(Merge(a, b), m) = Merge(a, Merge(b, m))

RatiosAreInUnitInterval ==
    \A y \in 0..MaxPixels : \A x \in 0..y :
        /\ BigLess(<<>>, ValueOf(SetToBag({<<x, y>>})))
        /\ BigLeq(ValueOf(SetToBag({<<x, y>>})), Den)

(* what an update added to a sum of ratios is one such ratio *)
OneRatioAdded(old, new) ==
    \E y \in 0..MaxPixels : \E x \in 0..y : new = old (+) SetToBag({<<x, y>>})

(* C7: the sums never decrease.  An update adds to mae a number of [0, 1], *)
(* to every precision[th] and recall[th] a number of (0, 1], and to q a    *)
(* number that is not NaN and not negative, in the branches of a ground    *)
(* truth of mean 0 or 1 and in the general branch after its clamp.         *)
SumsNeverDecrease ==
    [][/\ RatiosAreInUnitInterval
       /\ ~mae'.nan
       /\ ~q'.nan
       /\ mae'.v >= mae.v
       /\ q'.v >= q.v
       /\ cnt' = cnt => (precision' = precision /\ recall' = recall)
       /\ cnt' # cnt =>
             /\ mae'.v - mae.v <= FScale
             /\ \A th \in Thresholds :
                   /\ OneRatioAdded(precision[th], precision'[th])
                   /\ OneRatioAdded(recall[th], recall'[th])]_vars

(* an image whose score before the clamp is negative and one whose score   *)
(* before the clamp is NaN have been fed                                   *)
ClampedScoresFed ==
    /\ Len(fed) = 2
    /\ GeneralScore(Norm(Samples[fed[1]].pred), Norm(Samples[fed[1]].gt)).v < 0
    /\ GeneralScore(Norm(Samples[fed[2]].pred), Norm(Samples[fed[2]].gt)).nan
    /\ FMean(Flatten(Norm(Samples[fed[1]].gt))) \notin {FZero, FOne}
    /\ FMean(Flatten(Norm(Samples[fed[2]].gt))) \notin {FZero, FOne}

(* the mask of the pixels whose normalized ground truth exceeds th / 256, *)
(* and the sums of the ratios lines 111-115 would add with it              *)
NormalizedGtMask(gt, th) ==
    LET g == Flatten(gt) IN {k \in DOMAIN g : g[k] * thresholds > th * PixelMax}

RatiosOfNormalizedGt(k, th) ==
    LET a == PredMask(Samples[k].pred, th)
        b == NormalizedGtMask(Samples[k].gt, th)
    IN  <<EpsRatio(Cardinality(a \cap b), Cardinality(a)),
          EpsRatio(Cardinality(a \cap b), Cardinality(b))>>

RECURSIVE SumOfNormalizedGt(_, _, _)
SumOfNormalizedGt(s, th, i) ==
    IF s = <<>> THEN NoRatio
    ELSE RatioAdd(SumOfNormalizedGt(SubSeq(s, 1, Len(s) - 1), th, i),
                  RatiosOfNormalizedGt(s[Len(s)], th)[i])

(* C8, as the claim states it: the ground-truth mask at th holds the       *)
(* pixels whose normalized ground truth gt / 255 exceeds th / 256, so that *)
(* precision[th] and recall[th] are the sums of the ratios of that mask.   *)
GtMaskIsOfNormalizedGt ==
    \A th \in Thresholds :
        /\ ValueOf(precision[th]) = ValueOf(SumOfNormalizedGt(fed, th, 1))
        /\ ValueOf(recall[th]) = ValueOf(SumOfNormalizedGt(fed, th, 2))

(* a prediction that is 255 everywhere with a ground truth that is 0      *)
(* everywhere, and the state after one update with it                      *)
WhiteOnBlack == Sample(Img22(255, 255, 255, 255), Img22(0, 0, 0, 0))

WhiteOnBlackFed ==
    /\ Len(fed) = 1
    /\ Samples[fed[1]] = WhiteOnBlack
    /\ cnt = 1

(* C9, amended: one update of a fresh Metric with a prediction that is 255 *)
(* everywhere and a ground truth that is 0 everywhere adds 0 to q (the     *)
(* branch of a ground truth of mean 0) and 1 to mae; at threshold 0 the    *)
(* ground-truth mask is empty, so that the recall added is                 *)
(* epsilon / epsilon = 1, and it is the precision added,                   *)
(* epsilon / (4 + epsilon), that is near 0.                                *)
WhiteOnBlackRecallIsOne ==
    WhiteOnBlackFed =>
        /\ q = FZero
        /\ mae = FOne
        /\ ValueOf(recall[0]) = Den
        /\ precision[0] = EpsRatio(0, 4)
        /\ BigLess(BigMul(ValueOf(precision[0]), BigOf(EpsInv)), Den)

(* the update has been made and nothing else *)
WhiteOnBlackJustFed ==
    /\ WhiteOnBlackFed
    /\ raised = "none"
    /\ printed = <<>>

(* C9, as the claim states it: the recall added at threshold 0 is near 0,  *)
(* far below 1 (here: below 1/2).                                          *)
WhiteOnBlackRecallNearZero ==
    WhiteOnBlackFed =>
        /\ q = FZero
        /\ mae = FOne
        /\ BigLess(BigMul(ValueOf(recall[0]), <<2>>), Den)

(* the samples of the general branch, and those of them whose centroid    *)
(* has x = 0 or y = 0                                                      *)
GeneralBranch(k) ==
    FMean(Flatten(Norm(Samples[k].gt))) \notin {FZero, FOne}

CentroidOnEdge(k) ==
    LET c == _centroid(Binarize(Norm(Samples[k].gt)))
    IN  GeneralBranch(k) /\ (c[1] = 0 \/ c[2] = 0)

(* C10: in the general branch, when _centroid returns x = 0 or y = 0 a     *)
(* quadrant is empty, its weight is 0, _ssim of it is NaN, the NaN         *)
(* survives the product with the weight, _s_region and the score are NaN,  *)
(* and the image adds exactly 0 to q, whatever the object term and the     *)
(* other quadrants score.                                                  *)
EmptyQuadrantScoresZero ==
    /\ \A i \in DOMAIN fed :
          CentroidOnEdge(fed[i]) =>
              LET np == Norm(Samples[fed[i]].pred)
                  ng == Norm(Samples[fed[i]].gt)
                  b == Binarize(ng)
                  c == _centroid(b)
                  g == divide(b, c[1], c[2])
                  p == divide(np, c[1], c[2])
                  w == weights(b, c[1], c[2])
              IN  /\ \E j \in 1..4 :
                        /\ g[j] = <<>>
                        /\ w[j] = FZero
                        /\ _ssim(p[j], g[j]).nan
                        /\ FMul(w[j], _ssim(p[j], g[j])).nan
                  /\ _s_region(np, b).nan
                  /\ GeneralScore(np, ng).nan
                  /\ SMeasureOf(np, ng) = FZero
    /\ q = FSum(SelectSeq(fed, LAMBDA k : ~CentroidOnEdge(k)), "q")

(* an image with its centroid on an edge has been fed whose object term    *)
(* is not 0 and whose quadrants that are not empty score 1, and q is 0     *)
PerfectPredictionScoredZero ==
    /\ Len(fed) = 1
    /\ cnt = 1
    /\ CentroidOnEdge(fed[1])
    /\ Samples[fed[1]].pred = Samples[fed[1]].gt
    /\ _s_object(Norm(Samples[fed[1]].pred), Binarize(Norm(Samples[fed[1]].gt))).v > 0
    /\ q = FZero

====
